---- MODULE Spec2Model ----
(***************************************************************************)
(* Model of the fair-competition review prototype.                         *)
(*                                                                         *)
(*   src/script.js  the browser client: the project collection kept in     *)
(*                  localStorage under 'ai_projects', and the handlers     *)
(*                  that the pages bind to their buttons;                  *)
(*   src/server.js  the POST /api/review handler.                          *)
(*                                                                         *)
(* The client runs in browser pages (tabs) that share one localStorage.    *)
(* Each page keeps what it rendered when it was loaded: which buttons got  *)
(* a listener, the rows of the disposition form, and the timer the review  *)
(* scheduled together with the collection that timer's closure captured.   *)
(***************************************************************************)
EXTENDS Integers, Sequences, FiniteSets, TLC

VARIABLES storage, tabs, now, nextP, nextR, started, saves, returned, userForm,
          srvPc, srvReq, srvRaw, srvRes, llmCalls

clientVars == <<storage, tabs, now, nextP, nextR, started, saves, returned, userForm>>
serverVars == <<srvPc, srvReq, srvRaw, srvRes, llmCalls>>
vars == <<storage, tabs, now, nextP, nextR, started, saves, returned, userForm,
          srvPc, srvReq, srvRaw, srvRes, llmCalls>>

(***************************************************************************)
(* Bounds of the model.                                                    *)
(***************************************************************************)
NumTabs == 2
MaxProjects == 2
MaxReviews == 2
MaxTime == 1
MaxSaves == 1
MaxRows == 1
MaxIdx == 0

Tabs == 1..NumTabs

(***************************************************************************)
(* Values.  A nullable value is a sequence of length 0 (null) or 1.        *)
(***************************************************************************)
Null == <<>>
Some(x) == <<x>>
IsNull(v) == v = <<>>
Get(v) == v[1]

(* Text is a sequence of characters, so that trim() has something to do.   *)
Blank == " "
EmptyText == <<>>

RECURSIVE trimStart(_)
trimStart(s) ==
  IF s # <<>> /\ Head(s) = Blank THEN trimStart(Tail(s)) ELSE s

RECURSIVE trimEnd(_)
trimEnd(s) ==
  IF s # <<>> /\ s[Len(s)] = Blank THEN trimEnd(SubSeq(s, 1, Len(s) - 1)) ELSE s

trim(s) == trimEnd(trimStart(s))

(* formatDate renders a Date to the minute: a date of the model is the     *)
(* minute it falls in, which is all that formatDate keeps of it.           *)
formatDate(date) == date

(***************************************************************************)
(* getProjects / saveProjects / find                                       *)
(***************************************************************************)
(* Every value the handlers store (texts, numbers, null, arrays and plain  *)
(* objects of these) comes back from JSON.parse(JSON.stringify(...)) as it *)
(* went in; what the round trip does is copy, so a handler works on a      *)
(* collection of its own.  An absent item reads as the empty collection.   *)
getProjects(store) == store

saveProjects(projects) == projects

(* Array.prototype.find with p.id === id: the index of the first match,    *)
(* 0 when there is none.                                                   *)
find(projects, id) ==
  LET hits == {i \in 1..Len(projects) : projects[i].id = id}
  IN  IF hits = {} THEN 0 ELSE CHOOSE i \in hits : \A j \in hits : i <= j

(***************************************************************************)
(* createDummyAIResults                                                    *)
(***************************************************************************)
(* riskLevels = [high, medium, low] (line 254), written in ASCII.         *)
riskLevels == <<"high", "medium", "low">>
NumCategories == 4
order(level) == CASE level = "high" -> 3 [] level = "medium" -> 2 [] level = "low" -> 1
MinItems == 2
ItemSpread == 3

(* Mutant: one finding too many.                                           *)
numItemsOfOneMore(r) == r + MinItems + 1

(* Math.floor(Math.random() * 3) + 2, r the value of Math.floor(random*3). *)
numItemsOf(r) == r + MinItems

(* Mutant: the comparison of line 298 the wrong way round.                 *)
RECURSIVE highestOfReversed(_, _)
highestOfReversed(items, highest) ==
  IF items = <<>> THEN highest
  ELSE highestOfReversed(Tail(items),
                         IF order(Head(items).riskLevel) < order(highest)
                         THEN Head(items).riskLevel ELSE highest)

(* The forEach of lines 296-299, from left to right.                       *)
RECURSIVE highestOf(_, _)
highestOf(items, highest) ==
  IF items = <<>> THEN highest
  ELSE highestOf(Tail(items),
                 IF order(Head(items).riskLevel) > order(highest)
                 THEN Head(items).riskLevel ELSE highest)

MaxItems == MinItems + ItemSpread - 1

(* generateId('R'): identifiers are random and taken to be fresh; the      *)
(* k-th finding of the serial-th generated review gets a number of its own.*)
generateId(serial, k) == (serial - 1) * MaxItems + k

(* numItems findings; idxs[i+1] is the pool index drawn for finding i,     *)
(* which selects its category, analysis, adjustment and law reference; the *)
(* suspected text follows from the position.                               *)
createDummyAIResults(numItems, idxs, serial) ==
  LET items == [k \in 1..numItems |->
                  [id |-> generateId(serial, k),
                   category |-> idxs[k],
                   riskLevel |-> riskLevels[((k - 1) % Len(riskLevels)) + 1]]]
  IN  [overallRisk |-> highestOf(items, "low"),
       riskItems |-> items,
       actions |-> <<>>]

(***************************************************************************)
(* displayProjectDetail: what a detail page renders and binds.             *)
(***************************************************************************)
ListPage == [page |-> "list", id |-> 0, bound |-> FALSE, startBound |-> FALSE,
             startDisabled |-> FALSE, formIds |-> <<>>, timer |-> Null]

displayProjectDetail(id, projects) ==
  LET i == find(projects, id) IN
  IF i = 0
  THEN [ListPage EXCEPT !.page = "detail", !.id = id]
  ELSE IF IsNull(projects[i].aiReview)
  THEN [ListPage EXCEPT !.page = "detail", !.id = id, !.bound = TRUE,
                        !.startBound = TRUE]
  ELSE [ListPage EXCEPT !.page = "detail", !.id = id, !.bound = TRUE,
                        !.formIds = [k \in 1..Len(Get(projects[i].aiReview).riskItems) |->
                                       Get(projects[i].aiReview).riskItems[k].id]]

(***************************************************************************)
(* handleCreateProject                                                     *)
(***************************************************************************)
(* The validation of lines 95-98 on the trimmed fields.                    *)
createRejected(projectName, policyTitle) ==
  trim(projectName) = EmptyText \/ trim(policyTitle) = EmptyText

(* The new project; org, draftType, scope, releaseDate, isSecret and       *)
(* applyException, which no handler reads or writes again, are left out.   *)
newProject(id, projectName, policyTitle, date) ==
  [id |-> id,
   projectName |-> trim(projectName),
   policyTitle |-> trim(policyTitle),
   createdAt |-> formatDate(date),
   updatedAt |-> formatDate(date),
   status |-> "DRAFT",
   aiReview |-> Null]

handleCreateProject(store, id, projectName, policyTitle, date) ==
  IF createRejected(projectName, policyTitle)
  THEN store
  ELSE saveProjects(Append(getProjects(store),
                           newProject(id, projectName, policyTitle, date)))

(***************************************************************************)
(* startAIReview: the synchronous part, and the setTimeout callback.       *)
(***************************************************************************)
(* Lines 224-225 on the project found at index i.                          *)
markReviewing(projects, i, date) ==
  [projects EXCEPT ![i].status = "AI_REVIEWING",
                   ![i].updatedAt = formatDate(date)]

startAIReview(store, id, date) ==
  LET projects == getProjects(store)
      i == find(projects, id)
  IN  IF i = 0 THEN store ELSE saveProjects(markReviewing(projects, i, date))

(* Lines 236-240: `projects` and `project` are the ones the closure        *)
(* captured when the review was started.                                   *)
reviewCallback(projects, i, result, date) ==
  saveProjects([projects EXCEPT ![i].aiReview = Some(result),
                                ![i].status = "AI_COMPLETED",
                                ![i].updatedAt = formatDate(date)])

(***************************************************************************)
(* saveRiskActions                                                         *)
(***************************************************************************)
SelectValues == {"", "adopt", "exception", "reject"}

(* Mutant: a saved description is added to the one already stored.        *)
mergeActionsAppending(actions, form) ==
  LET chosen == {k \in DOMAIN form : form[k].type # ""}
  IN  [k \in (DOMAIN actions) \cup chosen |->
         IF k \in chosen
         THEN [type |-> form[k].type,
               desc |-> (IF k \in DOMAIN actions THEN actions[k].desc ELSE EmptyText)
                        \o trim(form[k].desc)]
         ELSE actions[k]]

(* The forEach of lines 314-324 over the selects of the page: form maps    *)
(* each rendered finding identifier to the select's value and the          *)
(* textarea's text.                                                        *)
mergeActions(actions, form) ==
  LET chosen == {k \in DOMAIN form : form[k].type # ""}
  IN  [k \in (DOMAIN actions) \cup chosen |->
         IF k \in chosen
         THEN [type |-> form[k].type, desc |-> trim(form[k].desc)]
         ELSE actions[k]]

saveRiskActions(store, id, form, date) ==
  LET projects == getProjects(store)
      i == find(projects, id)
  IN  IF i = 0 THEN store
      ELSE IF IsNull(projects[i].aiReview) THEN store
      ELSE saveProjects(
             [projects EXCEPT
                ![i].aiReview = Some([Get(projects[i].aiReview) EXCEPT
                                  !.actions = mergeActions(@, form)]),
                ![i].updatedAt = formatDate(date)])

(***************************************************************************)
(* submitForDepartmentReview                                               *)
(***************************************************************************)
(* Mutant: the check of lines 336-339 left out.                            *)
submitAcceptedUnchecked(projects, id) == find(projects, id) # 0

submitAccepted(projects, id) ==
  LET i == find(projects, id)
  IN  i # 0 /\ ~IsNull(projects[i].aiReview)

submitForDepartmentReview(store, id, date) ==
  LET projects == getProjects(store)
      i == find(projects, id)
  IN  IF ~submitAccepted(projects, id) THEN store
      ELSE saveProjects([projects EXCEPT ![i].status = "DEPT_REVIEWING",
                                         ![i].updatedAt = formatDate(date)])

(***************************************************************************)
(* What the user can type and choose.                                      *)
(***************************************************************************)
TextInputs == {EmptyText, <<Blank>>, <<Blank, "a">>}
DescInputs == {<<"x", Blank>>}

(* The pool indexes Math.floor(Math.random() * categories.length) is taken *)
(* to draw: those up to MaxIdx.                                            *)
DrawnIdx == {k \in 0..(NumCategories - 1) : k <= MaxIdx}

(* The forms a user submits on a page that rendered the findings formIds  *)
(* (in this order): the user leaves every select unset, or chooses a       *)
(* disposition for one of the first MaxRows findings.                      *)
FormInputs(formIds) ==
  LET unset == [type |-> "", desc |-> EmptyText]
      ids == {formIds[k] : k \in DOMAIN formIds}
      rows == {k \in DOMAIN formIds : k <= MaxRows}
  IN  {[k \in ids |-> unset]} \cup
      {[k \in ids |-> IF k = formIds[c[1]] THEN [type |-> c[2], desc |-> c[3]] ELSE unset] :
         c \in rows \X (SelectValues \ {""}) \X DescInputs}

(* Dates(clock): what new Date() can return when the last reading was     *)
(* clock; the model's clock counts minutes and stops at MaxTime.           *)
Dates(clock) == clock..MaxTime

ClientInit ==
  /\ storage = <<>>
  /\ tabs = [t \in Tabs |-> ListPage]
  /\ now = 0
  /\ nextP = 1
  /\ nextR = 1
  /\ started = 0
  /\ saves = 0
  /\ returned = "none"
  /\ userForm = Null

(* create.html: the submit handler, then the redirect to the detail page.  *)
CreateWith(t, projectName, policyTitle, date) ==
  /\ tabs[t].page = "list"
  /\ storage' = handleCreateProject(storage, nextP, projectName, policyTitle, date)
  /\ IF createRejected(projectName, policyTitle)
     THEN /\ returned' = "create"
          /\ UNCHANGED <<tabs, nextP, now>>
     ELSE /\ nextP <= MaxProjects
          /\ nextP' = nextP + 1
          /\ now' = date
          /\ tabs' = [tabs EXCEPT ![t] = displayProjectDetail(nextP, storage')]
          /\ returned' = "none"
  /\ UNCHANGED <<nextR, started, saves, userForm, serverVars>>

CreateProject(t) ==
  \E projectName \in TextInputs, policyTitle \in TextInputs, date \in Dates(now) :
    CreateWith(t, projectName, policyTitle, date)

(* dashboard.html: following the link of a listed project.                 *)
OpenDetail(t) ==
  /\ tabs[t].page = "list"
  /\ \E i \in 1..Len(storage) :
       tabs' = [tabs EXCEPT ![t] = displayProjectDetail(storage[i].id, storage)]
  /\ returned' = "none"
  /\ UNCHANGED <<storage, now, nextP, nextR, started, saves, userForm, serverVars>>

(* Leaving a detail page (the report button, lines 210-214, or the         *)
(* navigation bar); the page's timer dies with it.                         *)
Leave(t) ==
  /\ tabs[t].page = "detail"
  /\ tabs' = [tabs EXCEPT ![t] = ListPage]
  /\ returned' = "none"
  /\ UNCHANGED <<storage, now, nextP, nextR, started, saves, userForm, serverVars>>

(* The click on btn-start-ai: the listener exists only on a page rendered  *)
(* without a review, and the button is disabled once a review started.     *)
StartWith(t, date) ==
  /\ tabs[t].page = "detail"
  /\ tabs[t].startBound
  /\ ~tabs[t].startDisabled
  /\ storage' = startAIReview(storage, tabs[t].id, date)
  /\ LET i == find(getProjects(storage), tabs[t].id)
     IN  IF i = 0
         THEN /\ returned' = "start"
              /\ UNCHANGED <<tabs, started, now>>
         ELSE /\ started < MaxReviews
              /\ started' = started + 1
              /\ now' = date
              /\ tabs' = [tabs EXCEPT ![t].startDisabled = TRUE,
                                      ![t].timer = Some([projects |-> storage',
                                                         idx |-> i])]
              /\ returned' = "none"
  /\ UNCHANGED <<nextP, nextR, saves, userForm, serverVars>>

ClickStart(t) == \E date \in Dates(now) : StartWith(t, date)

(* The setTimeout callback of lines 234-243, then the page reload.         *)
ReviewComplete(t) ==
  /\ ~IsNull(tabs[t].timer)
  /\ \E r \in 0..(ItemSpread - 1), date \in Dates(now) :
       \E idxs \in [1..numItemsOf(r) -> DrawnIdx] :
         LET tm == Get(tabs[t].timer)
             result == createDummyAIResults(numItemsOf(r), idxs, nextR)
         IN  /\ storage' = reviewCallback(tm.projects, tm.idx, result, date)
             /\ now' = date
             /\ nextR' = nextR + 1
             /\ tabs' = [tabs EXCEPT ![t] = displayProjectDetail(tabs[t].id, storage')]
  /\ returned' = "none"
  /\ UNCHANGED <<nextP, started, saves, userForm, serverVars>>

(* The click on btn-save-actions with the form as the user left it.        *)
SaveWith(t, form, date) ==
  /\ tabs[t].page = "detail"
  /\ tabs[t].bound
  /\ storage' = saveRiskActions(storage, tabs[t].id, form, date)
  /\ LET i == find(getProjects(storage), tabs[t].id)
     IN  IF i = 0 \/ IsNull(storage[i].aiReview)
         THEN /\ returned' = "save"
              /\ UNCHANGED <<saves, now>>
         ELSE /\ saves' = saves + 1
              /\ now' = date
              /\ returned' = "none"
  /\ UNCHANGED <<tabs, nextP, nextR, started, userForm, serverVars>>

ClickSave(t) ==
  \E form \in FormInputs(tabs[t].formIds), date \in Dates(now) :
    /\ SaveWith(t, form, date)
    /\ saves' <= MaxSaves

(* The click on btn-submit-review; on success the page goes to the         *)
(* dashboard.                                                              *)
SubmitWith(t, date) ==
  /\ tabs[t].page = "detail"
  /\ tabs[t].bound
  /\ storage' = submitForDepartmentReview(storage, tabs[t].id, date)
  /\ IF submitAccepted(getProjects(storage), tabs[t].id)
     THEN /\ tabs' = [tabs EXCEPT ![t] = ListPage]
          /\ now' = date
          /\ returned' = "none"
     ELSE /\ returned' = "submit"
          /\ UNCHANGED <<tabs, now>>
  /\ UNCHANGED <<nextP, nextR, started, saves, userForm, serverVars>>

ClickSubmit(t) == \E date \in Dates(now) : SubmitWith(t, date)

(***************************************************************************)
(* src/server.js: JavaScript values, as far as the handler looks at them.  *)
(* A value is [t, v]: t is what kind of value it is, v its content (a      *)
(* number, a string, a sequence of values, a record of fields; 0 for       *)
(* undefined and null).                                                    *)
(***************************************************************************)
Undefined == [t |-> "undefined", v |-> 0]
JsNull == [t |-> "null", v |-> 0]
Num(n) == [t |-> "number", v |-> n]
Str(text) == [t |-> "string", v |-> text]
Arr(items) == [t |-> "array", v |-> items]
Obj(fields) == [t |-> "object", v |-> fields]
EmptyObj == Obj([k \in {} |-> Undefined])

(* typeof x                                                                *)
typeOf(x) ==
  CASE x.t = "undefined" -> "undefined"
    [] x.t = "number" -> "number"
    [] x.t = "string" -> "string"
    [] x.t = "boolean" -> "boolean"
    [] OTHER -> "object"

(* ToBoolean(x), as `!x` and `x || y` apply it.                            *)
truthy(x) ==
  CASE x.t = "undefined" -> FALSE
    [] x.t = "null" -> FALSE
    [] x.t = "number" -> x.v # 0
    [] x.t = "string" -> x.v # ""
    [] x.t = "boolean" -> x.v
    [] OTHER -> TRUE

(* x || y                                                                  *)
orElse(x, y) == IF truthy(x) THEN x ELSE y

isArray(x) == x.t = "array"

(* Reading x.name throws a TypeError when x is undefined or null.          *)
readThrows(x) == x.t \in {"undefined", "null"}

(* x.name, for the names the handler reads, when the read does not throw.  *)
prop(x, name) ==
  IF x.t = "object" /\ name \in DOMAIN x.v THEN x.v[name] ELSE Undefined

(* JSON.parse on the texts the model's backend returns: Some(value), or    *)
(* Null when JSON.parse throws a SyntaxError.                              *)
JSONparse(text) ==
  CASE text = "null" -> Some(JsNull)
    [] text = "7" -> Some(Num(7))
    [] text = "[]" -> Some(Arr(<<>>))
    [] text = "{}" -> Some(EmptyObj)
    [] text = "{\"issues\":\"none\",\"summary\":5}" ->
         Some(Obj([issues |-> Str("none"), summary |-> Num(5)]))
    [] text = "{\"riskScore\":10,\"summary\":\"ok\",\"issues\":[],\"modelNote\":\"n\"}" ->
         Some(Obj([riskScore |-> Num(10), summary |-> Str("ok"),
                   issues |-> Arr(<<>>), modelNote |-> Str("n")]))
    [] OTHER -> Null

(* The object callLLM returns as the file stands (lines 50-70); the texts  *)
(* of the summary, the issues and the note are shortened.                  *)
MockResult ==
  Obj([riskScore |-> Num(65),
       summary |-> Str("summary"),
       issues |-> Arr(<<Obj([title |-> Str("t1"), level |-> Str("high"),
                             description |-> Str("d1"), suggestion |-> Str("s1"),
                             lawReference |-> Str("l1")]),
                        Obj([title |-> Str("t2"), level |-> Str("medium"),
                             description |-> Str("d2"), suggestion |-> Str("s2"),
                             lawReference |-> Str("l2")])>>),
       modelNote |-> Str("note")])

(* What callLLM may return once it calls a real model: "the model's JSON   *)
(* object or JSON string" (line 25).                                       *)
BackendValues ==
  <<MockResult,
    EmptyObj,
    Obj([issues |-> Str("none")]),
    Obj([riskScore |-> Str("65"), summary |-> Num(0), issues |-> Arr(<<>>),
         modelNote |-> JsNull]),
    Str("null"),
    Str("7"),
    Str("[]"),
    Str("{}"),
    Str("{\"issues\":\"none\",\"summary\":5}"),
    Str("{\"riskScore\":10,\"summary\":\"ok\",\"issues\":[],\"modelNote\":\"n\"}"),
    Str("not json"),
    Str("")>>

(* The bodies a client may post; the first is a request without a body.    *)
RequestBodies ==
  <<Undefined,
    EmptyObj,
    Obj([content |-> Str("")]),
    Obj([content |-> JsNull]),
    Obj([content |-> Num(5)]),
    Obj([content |-> Num(0)]),
    Obj([content |-> Arr(<<Str("text")>>)]),
    Obj([businessType |-> Str("platform")]),
    Obj([content |-> Str("text")]),
    Obj([content |-> Str("text"), businessType |-> Str("platform")]),
    Obj([content |-> Str("text"), businessType |-> Str("")]),
    Obj([content |-> Str("text"), jurisdiction |-> Str("eu")]),
    Obj([content |-> Str("text"), jurisdiction |-> Num(0)]),
    Obj([content |-> Str("text"), options |-> EmptyObj]),
    Obj([content |-> Str("text"), businessType |-> Str("platform"),
         jurisdiction |-> Str("eu"), options |-> EmptyObj]),
    Obj([content |-> Str("other text")])>>

(* The error messages of lines 106, 123 and 138, which the source has in   *)
(* Chinese.                                                                *)
ErrContentEmpty == "content must not be empty"
ErrParseFailed == "parsing the model result failed"
ErrInternal == "internal server error"

Reply(status, body) == [status |-> status, body |-> body]
ErrorReply(status, message) == Reply(status, Obj([error |-> Str(message)]))

(* Mutant: the typeof half of the check of line 105 left out.              *)
contentRejectedFalsyOnly(content) == ~truthy(content)

(* Line 105.                                                               *)
contentRejected(content) == ~truthy(content) \/ typeOf(content) # "string"

(* buildPrompt: the prompt is a text made of the three parts (the options  *)
(* are not used in it).                                                    *)
buildPrompt(params) ==
  [businessType |-> params.businessType,
   jurisdiction |-> params.jurisdiction,
   content |-> params.content]

(* Lines 129-134.                                                          *)
normalize(parsed) ==
  Obj([riskScore |-> IF typeOf(prop(parsed, "riskScore")) = "number"
                     THEN prop(parsed, "riskScore") ELSE JsNull,
       summary |-> orElse(prop(parsed, "summary"), Str("")),
       issues |-> IF isArray(prop(parsed, "issues"))
                  THEN prop(parsed, "issues") ELSE Arr(<<>>),
       modelNote |-> orElse(prop(parsed, "modelNote"), Str(""))])

(* Lines 116-138, from the value callLLM resolved to.                      *)
respond(raw) ==
  LET parsed == IF typeOf(raw) = "string" THEN JSONparse(raw.v) ELSE Some(raw)
  IN  IF IsNull(parsed) THEN ErrorReply(500, ErrParseFailed)
      ELSE IF readThrows(Get(parsed)) THEN ErrorReply(500, ErrInternal)
      ELSE Reply(200, normalize(Get(parsed)))

ServerIdle ==
  /\ srvPc = "idle"
  /\ srvReq = Null
  /\ srvRaw = Null
  /\ srvRes = Null
  /\ llmCalls = <<>>

(* POST /api/review up to the await of line 115.                           *)
Receive(body) ==
  /\ srvPc = "idle"
  /\ srvReq' = Some(body)
  /\ LET b == orElse(body, EmptyObj)
         content == prop(b, "content")
     IN  IF contentRejected(content)
         THEN /\ srvRes' = Some(ErrorReply(400, ErrContentEmpty))
              /\ srvPc' = "done"
              /\ UNCHANGED llmCalls
         ELSE /\ llmCalls' = Append(llmCalls,
                   buildPrompt([businessType |-> orElse(prop(b, "businessType"), Str("general")),
                                jurisdiction |-> orElse(prop(b, "jurisdiction"), Str("cn")),
                                content |-> content,
                                options |-> orElse(prop(b, "options"), EmptyObj)]))
              /\ srvPc' = "awaiting"
              /\ UNCHANGED srvRes
  /\ UNCHANGED <<srvRaw, clientVars>>

(* callLLM resolves, and the handler answers.                              *)
BackendReturns(raw) ==
  /\ srvPc = "awaiting"
  /\ srvRaw' = Some(raw)
  /\ srvRes' = Some(respond(raw))
  /\ srvPc' = "done"
  /\ UNCHANGED <<srvReq, llmCalls, clientVars>>

(* callLLM rejects: the catch of lines 136-139.                            *)
BackendFails ==
  /\ srvPc = "awaiting"
  /\ srvRes' = Some(ErrorReply(500, ErrInternal))
  /\ srvPc' = "done"
  /\ UNCHANGED <<srvReq, srvRaw, llmCalls, clientVars>>

Init == ClientInit /\ ServerIdle

Next ==
  \/ \E t \in Tabs : CreateProject(t)
  \/ \E t \in Tabs : OpenDetail(t)
  \/ \E t \in Tabs : Leave(t)
  \/ \E t \in Tabs : ClickStart(t)
  \/ \E t \in Tabs : ReviewComplete(t)
  \/ \E t \in Tabs : ClickSave(t)
  \/ \E t \in Tabs : ClickSubmit(t)

Spec == Init /\ [][Next]_vars

ServerNext ==
  \/ \E k \in DOMAIN RequestBodies : Receive(RequestBodies[k])
  \/ \E k \in DOMAIN BackendValues : BackendReturns(BackendValues[k])
  \/ BackendFails

ServerSpec == Init /\ [][ServerNext]_vars

(***************************************************************************)
(* Saving one form again and again.  The first tab shows the detail page   *)
(* of a project with a review of any size; an earlier save may have stored *)
(* a disposition, and a second review may since have replaced the findings *)
(* the page rendered.  userForm is the form as the user filled it in: any  *)
(* choice for every row.  Here saves counts the saves of that form.        *)
(***************************************************************************)
AllForms(formIds) ==
  LET unset == [type |-> "", desc |-> EmptyText]
      ids == {formIds[k] : k \in DOMAIN formIds}
  IN  [ids -> {unset} \cup [type : SelectValues \ {""}, desc : DescInputs]]

SavePage ==
  /\ \E r \in 0..(ItemSpread - 1), again \in BOOLEAN :
       \E idxs \in [1..numItemsOf(r) -> DrawnIdx] :
         LET created == handleCreateProject(<<>>, 1, <<"a">>, <<"a">>, 0)
             reviewing == startAIReview(created, 1, 0)
             first == reviewCallback(reviewing, 1,
                                     createDummyAIResults(numItemsOf(r), idxs, 1), 0)
             page == displayProjectDetail(1, first)
         IN  /\ tabs = [t \in Tabs |-> IF t = 1 THEN page ELSE ListPage]
             /\ \E earlier \in FormInputs(page.formIds) :
                  LET saved == saveRiskActions(first, 1, earlier, 0)
                  IN  storage = IF again
                                THEN reviewCallback(saved, 1,
                                       createDummyAIResults(numItemsOf(r), idxs, 2), 0)
                                ELSE saved
             /\ \E form \in AllForms(page.formIds) : userForm = Some(form)
             /\ nextR = IF again THEN 3 ELSE 2
             /\ started = IF again THEN 2 ELSE 1
  /\ now = 0
  /\ nextP = 2
  /\ saves = 0
  /\ returned = "none"

RepeatSave ==
  \E date \in Dates(now) :
    /\ SaveWith(1, Get(userForm), date)
    /\ saves' <= 2

SaveInit == SavePage /\ ServerIdle

SaveSpec == SaveInit /\ [][RepeatSave]_vars

(***************************************************************************)
(* Properties of the project collection.                                   *)
(***************************************************************************)
Indices(store) == 1..Len(store)

Reviewed(p) == ~IsNull(p.aiReview)

ReviewedStatuses == {"AI_COMPLETED", "DEPT_REVIEWING", "APPROVED"}

(* C1: in every reachable state every persisted project has a review if    *)
(* and only if its status is AI_COMPLETED, DEPT_REVIEWING or APPROVED, so  *)
(* no project has a review while it is DRAFT or AI_REVIEWING.              *)
C1_ReviewIffStatus ==
  \A i \in Indices(storage) :
    Reviewed(storage[i]) <=> storage[i].status \in ReviewedStatuses

(* The greatest risk level of a sequence of findings, low < medium < high, *)
(* and low for no findings, stated without the generator's loop.           *)
MaxRisk(items) ==
  IF items = <<>> THEN "low"
  ELSE IF \E k \in DOMAIN items : items[k].riskLevel = "high" THEN "high"
  ELSE IF \E k \in DOMAIN items : items[k].riskLevel = "medium" THEN "medium"
  ELSE "low"

(* C3: in every reachable state, the overallRisk of every persisted review *)
(* is the greatest riskLevel among its riskItems (low when there are none).*)
C3_OverallRiskIsMax ==
  \A i \in Indices(storage) :
    Reviewed(storage[i]) =>
      Get(storage[i].aiReview).overallRisk = MaxRisk(Get(storage[i].aiReview).riskItems)

(* A review is persisted whose findings are not all of one level, so the   *)
(* maximum is a choice among several levels.                               *)
C3_Witness ==
  \E i \in Indices(storage) :
    /\ Reviewed(storage[i])
    /\ Get(storage[i].aiReview).overallRisk = "high"
    /\ \E k \in DOMAIN Get(storage[i].aiReview).riskItems :
         Get(storage[i].aiReview).riskItems[k].riskLevel = "low"

(* A text that is empty once trimmed: nothing but blanks.                  *)
IsBlankText(text) == \A k \in DOMAIN text : text[k] = Blank

(* The project a page names has no review in the collection, or is not in  *)
(* the collection at all.                                                  *)
Missing(id) == \A i \in Indices(storage) : storage[i].id # id

Unreviewed(id) ==
  \E i \in Indices(storage) : storage[i].id = id /\ ~Reviewed(storage[i])

(* C4: a rejected operation leaves the persisted collection as it was:     *)
(* Create with a blank project name or policy title, Submit and Save on a  *)
(* project without a review, and Start, Save and Submit on an identifier   *)
(* that is not in the collection.                                          *)
C4_RejectedLeavesCollection ==
  [][storage' # storage =>
       \A t \in Tabs, date \in Dates(now) :
         /\ \A projectName \in TextInputs, policyTitle \in TextInputs :
              (IsBlankText(projectName) \/ IsBlankText(policyTitle))
              => ~CreateWith(t, projectName, policyTitle, date)
         /\ (Unreviewed(tabs[t].id) \/ Missing(tabs[t].id))
              => /\ ~SubmitWith(t, date)
                 /\ \A form \in FormInputs(tabs[t].formIds) : ~SaveWith(t, form, date)
         /\ Missing(tabs[t].id) => ~StartWith(t, date)
    ]_vars

(* Start was clicked on a page whose project is no longer in the           *)
(* collection, at a time when a write would have shown in the timestamps.  *)
C4_Witness ==
  /\ returned = "start"
  /\ \E t \in Tabs :
       /\ tabs[t].page = "detail"
       /\ tabs[t].startBound
       /\ Missing(tabs[t].id)
  /\ storage # <<>>

(* The actions map of the project id in a collection.                      *)
ActionsOf(store, id) == Get(store[find(store, id)].aiReview).actions

(* C5: for every project with a review and every form, saving the          *)
(* dispositions twice in a row with that form leaves, after the second     *)
(* save, the actions map the first save left.                              *)
C5_SaveTwiceSameActions ==
  [][(saves > 0 /\ saves' > saves)
     => ActionsOf(storage', tabs[1].id) = ActionsOf(storage, tabs[1].id)]_vars

(* The form was saved twice, with a disposition chosen in two rows or      *)
(* more, on top of a disposition an earlier save had stored.               *)
C5_Witness ==
  /\ saves = 2
  /\ ~IsNull(userForm)
  /\ Cardinality({k \in DOMAIN Get(userForm) : Get(userForm)[k].type # ""}) >= 2
  /\ \E k \in DOMAIN ActionsOf(storage, tabs[1].id) :
       k \in DOMAIN Get(userForm) /\ Get(userForm)[k].type = ""

(* C8: once a project is DEPT_REVIEWING, its status is DEPT_REVIEWING in   *)
(* every later state of the collection.                                    *)
C8_DeptReviewingIsTerminal ==
  [][\A i \in Indices(storage), j \in Indices(storage') :
       (storage[i].id = storage'[j].id /\ storage[i].status = "DEPT_REVIEWING")
       => storage'[j].status = "DEPT_REVIEWING"]_vars

(* C9: StartReview leaves the status of a project alone unless the project *)
(* was DRAFT or AI_REVIEWING.                                              *)
C9_StartOnlyFromDraft ==
  [][\A t \in Tabs, date \in Dates(now) :
       StartWith(t, date) =>
         \A i \in Indices(storage) :
           (storage[i].id = tabs[t].id /\ storage[i].status \notin {"DRAFT", "AI_REVIEWING"})
           => /\ i \in Indices(storage')
              /\ storage'[i].status = storage[i].status]_vars

(* C10: once a project has a review, its riskItems are the same sequence   *)
(* in every later state of the collection.                                 *)
C10_FindingsImmutable ==
  [][\A i \in Indices(storage), j \in Indices(storage') :
       (storage[i].id = storage'[j].id /\ Reviewed(storage[i]) /\ Reviewed(storage'[j]))
       => Get(storage'[j].aiReview).riskItems = Get(storage[i].aiReview).riskItems]_vars

(* The identifiers of the findings of a review.                            *)
FindingIds(review) == {review.riskItems[k].id : k \in DOMAIN review.riskItems}

(* C11: in every reachable state, the keys of the actions of every         *)
(* persisted review are identifiers of findings of that same review, and   *)
(* every stored disposition has the type adopt, exception or reject; also  *)
(* after a save from a page that rendered a review since replaced.         *)
C11_ActionsKeyFindings ==
  \A i \in Indices(storage) :
    Reviewed(storage[i]) =>
      LET review == Get(storage[i].aiReview)
      IN  /\ DOMAIN review.actions \subseteq FindingIds(review)
          /\ \A k \in DOMAIN review.actions :
               review.actions[k].type \in SelectValues \ {""}

(* Two records of one project that differ at most in status, aiReview and  *)
(* updatedAt.                                                              *)
SameButReview(p, q) ==
  q = [p EXCEPT !.status = q.status, !.aiReview = q.aiReview,
                !.updatedAt = q.updatedAt]

(* C12: when the callback scheduled by StartReview writes its result, the  *)
(* collection holds the same projects after the write as before it; every  *)
(* project other than the reviewed one is as it was just before the write, *)
(* also one created or changed since the review was started, and the       *)
(* reviewed one differs at most in status, aiReview and updatedAt.         *)
C12_CompletionTouchesOneProject ==
  [][\A t \in Tabs :
       ReviewComplete(t) =>
         /\ Len(storage') = Len(storage)
         /\ \A i \in Indices(storage) :
              /\ storage'[i].id = storage[i].id
              /\ IF storage[i].id = tabs[t].id
                 THEN SameButReview(storage[i], storage'[i])
                 ELSE storage'[i] = storage[i]]_vars

(***************************************************************************)
(* The review that was started completes.                                  *)
(***************************************************************************)
(* The browser runs a timer's callback unless the page is left first.      *)
Fairness == \A t \in Tabs : WF_vars(ReviewComplete(t))

FairSpec == Init /\ [][Next]_vars /\ Fairness

Pending(t) == ~IsNull(tabs[t].timer)

(* The project id is persisted as a completed review: AI_COMPLETED, a      *)
(* review with no dispositions and two to four findings.                   *)
CompletedAsClaimed(id) ==
  \E i \in Indices(storage) :
    /\ storage[i].id = id
    /\ storage[i].status = "AI_COMPLETED"
    /\ Reviewed(storage[i])
    /\ DOMAIN Get(storage[i].aiReview).actions = {}
    /\ Len(Get(storage[i].aiReview).riskItems) \in 2..4

(* C2: Create with a name and a title persists a DRAFT project without a   *)
(* review; StartReview on it makes it AI_REVIEWING; and once the review is *)
(* scheduled the project reaches AI_COMPLETED with a review that has no    *)
(* dispositions and two to four findings, unless the page that scheduled   *)
(* it is left before the callback runs.                                    *)
C2_StartThenCompleted ==
  /\ [][storage' # storage =>
          \A t \in Tabs, date \in Dates(now) :
            /\ \A projectName \in TextInputs, policyTitle \in TextInputs :
                 CreateWith(t, projectName, policyTitle, date) =>
                   /\ Len(storage') = Len(storage) + 1
                   /\ storage'[Len(storage')].status = "DRAFT"
                   /\ ~Reviewed(storage'[Len(storage')])
            /\ StartWith(t, date) =>
                 \A i \in Indices(storage) :
                   (storage[i].id = tabs[t].id /\ storage[i].status = "DRAFT")
                   => storage'[i].status = "AI_REVIEWING"]_vars
  /\ \A t \in Tabs :
       Pending(t) ~> (tabs[t].page = "list" \/ CompletedAsClaimed(tabs[t].id))

(* A page's review of a DRAFT project has completed: the page has no timer *)
(* left, still shows the project, and the project is completed as claimed. *)
C2_Witness ==
  \E t \in Tabs :
    /\ ~Pending(t)
    /\ tabs[t].page = "detail"
    /\ tabs[t].formIds # <<>>
    /\ CompletedAsClaimed(tabs[t].id)
    /\ started = 1

(***************************************************************************)
(* Properties of the review handler.                                       *)
(***************************************************************************)
(* What the backend returned is a structured value or a text that parses.  *)
Parses(raw) == typeOf(raw) # "string" \/ ~IsNull(JSONparse(raw.v))

(* C6: when the backend returned a structured value or a text that parses  *)
(* as JSON, the handler answers 200 with exactly riskScore (a number or    *)
(* null), summary (a text), issues (a sequence) and modelNote (a text).    *)
C6_AlwaysWellShaped200 ==
  (srvPc = "done" /\ ~IsNull(srvRaw) /\ Parses(Get(srvRaw))) =>
    /\ Get(srvRes).status = 200
    /\ DOMAIN Get(srvRes).body.v = {"riskScore", "summary", "issues", "modelNote"}
    /\ Get(srvRes).body.v.riskScore.t \in {"number", "null"}
    /\ Get(srvRes).body.v.summary.t = "string"
    /\ Get(srvRes).body.v.issues.t = "array"
    /\ Get(srvRes).body.v.modelNote.t = "string"

(* The content of a posted body is missing, empty or not a text.           *)
BadContent(body) ==
  \/ body.t # "object"
  \/ "content" \notin DOMAIN body.v
  \/ body.v.content.t # "string"
  \/ body.v.content.v = ""

(* C7: a request whose content is missing, empty or not a text is answered *)
(* 400 with the empty-content error and callLLM is not invoked for it; a   *)
(* request for which callLLM was invoked had passed the content check.     *)
C7_BadContentRejected ==
  /\ srvPc = "idle" => llmCalls = <<>>
  /\ (srvPc # "idle" /\ BadContent(Get(srvReq))) =>
       /\ srvPc = "done"
       /\ llmCalls = <<>>
       /\ Get(srvRes).status = 400
       /\ DOMAIN Get(srvRes).body.v = {"error"}
       /\ Get(srvRes).body.v.error = Str(ErrContentEmpty)
  /\ (srvPc # "idle" /\ ~BadContent(Get(srvReq))) => Len(llmCalls) = 1

(* A request whose content is a number other than 0 has been answered: it  *)
(* is not empty, and not a text.                                           *)
C7_Witness ==
  /\ srvPc = "done"
  /\ Get(srvReq).t = "object"
  /\ "content" \in DOMAIN Get(srvReq).v
  /\ Get(srvReq).v.content.t = "number"
  /\ Get(srvReq).v.content.v # 0
  /\ Get(srvRes).status = 400

====
